---- MODULE Spec2Model ----
(***************************************************************************)
(* Model of the hmse_projects workspace storage engine:                    *)
(*   - ProjectMetadata (src/project_metadata.py): the in-memory record and *)
(*     its mutating methods;                                               *)
(*   - ProjectDao (src/project_dao.py): the local hierarchical store;      *)
(*   - the Project Service (src/project_service.py): read-modify-write     *)
(*     operations composed of the two, as whole calls (Spec), store access *)
(*     by store access with crashes and concurrent callers (SpecCrash,     *)
(*     SpecRace, SpecProjects) and on the workspace directory (SpecStore); *)
(*   - MinIOController (src/minio_controller/minio_controller.py): the     *)
(*     keys of the root bucket (SpecBucket);                               *)
(*   - scale_polygon (src/polygon_scaler.py), as a function (SpecScale).   *)
(*                                                                         *)
(* Python strings that the code slices or unpacks are tuples of            *)
(* one-character strings, dicts are sequences of <<key, value>> pairs in   *)
(* insertion order, sets are sets, None is the empty tuple.                *)
(***************************************************************************)
EXTENDS Integers, Sequences, FiniteSets, TLC

VARIABLES md, fs, last, ops, ws, run, bucket

vars == <<md, fs, last, ops, ws, run, bucket>>

----------------------------------------------------------------------------
(* Bounds and input universes *)

MaxOps == 5

MaxCalls == 7

MaxStoreOps == 4

MaxStarts == 3

MaxDim == 3

MaxMaskOps == 4

MaxBucketOps == 4

id_a == <<"a">>
id_ab == <<"a", "b">>
id_loam == <<"l", "o", "a", "m">>
id_b == <<"b">>
id_wx1 == <<"w", "x", "1">>

(* soil-model ids of the service calls, and of the calls on the object; the *)
(* one-character id matters only to the unpacking in remove_weather_file  *)
HydrusIds == {id_ab, id_loam}
MetaHydrusIds == HydrusIds \cup {id_a}
WeatherIds == {id_b, id_wx1}

shape_s == <<"s">>
shape_t == <<"t">>
UserShapeIds == {shape_s, shape_t}
UserColors == {"#336699"}
ManualValues == {<<"1", ".", "5">>}

----------------------------------------------------------------------------
(* Python dict: a sequence of <<key, value>> pairs in insertion order *)

Keys(d) == {d[i][1] : i \in DOMAIN d}

Has(d, k) == \E i \in DOMAIN d : d[i][1] = k

Get(d, k) == d[CHOOSE i \in DOMAIN d : d[i][1] = k][2]

Put(d, k, v) ==
    IF Has(d, k)
    THEN [i \in DOMAIN d |-> IF d[i][1] = k THEN <<k, v>> ELSE d[i]]
    ELSE Append(d, <<k, v>>)

Del(d, k) == SelectSeq(d, LAMBDA e : e[1] # k)

Values(d) == {d[i][2] : i \in DOMAIN d}

(* Union[HydrusID, float]: the value together with its Python type *)
StrVal(s) == <<"str", s>>
FloatVal(x) == <<"float", x>>
IsFloat(v) == v[1] = "float"
IsStr(v) == v[1] = "str"

None == <<>>
Some(x) == <<x>>

Result(m, e) == [md |-> m, err |-> e]

----------------------------------------------------------------------------
(* ProjectMetadata *)

NewProjectMetadata(project_id) ==
    [project_id |-> project_id,
     finished |-> FALSE,
     start_date |-> None,
     modflow_metadata |-> None,
     hydrus_models |-> {},
     weather_files |-> {},
     shapes |-> <<>>,
     shapes_to_hydrus |-> <<>>,
     hydrus_to_weather |-> <<>>]

contains_hydrus_model(m, hydrus_id) == hydrus_id \in m.hydrus_models

contains_weather_model(m, weather_id) == weather_id \in m.weather_files

contains_shape(m, shape_id) == Has(m.shapes, shape_id)

set_modflow_metadata(m, modflow_metadata) ==
    [m EXCEPT !.modflow_metadata = Some(modflow_metadata)]

remove_modflow_metadata(m) == [m EXCEPT !.modflow_metadata = None]

add_hydrus_model(m, hydrus_id) ==
    IF hydrus_id \notin m.hydrus_models
    THEN Result([m EXCEPT !.hydrus_models = @ \cup {hydrus_id}], "ok")
    ELSE Result(m, "DuplicateHydrusModel")

(* variant: set.discard instead of set.remove, an absent id is ignored *)
remove_hydrus_model_discard(m, hydrus_id) ==
    Result([m EXCEPT !.hydrus_models = @ \ {hydrus_id}], "ok")

remove_hydrus_model(m, hydrus_id) ==
    IF hydrus_id \in m.hydrus_models
    THEN Result([m EXCEPT !.hydrus_models = @ \ {hydrus_id}], "ok")
    ELSE Result(m, "UnknownHydrusModel")

add_weather_file(m, weather_file_id) ==
    IF weather_file_id \notin m.weather_files
    THEN Result([m EXCEPT !.weather_files = @ \cup {weather_file_id}], "ok")
    ELSE Result(m, "DuplicateWeatherFile")

(* for hydrus_id, weather_id in self.hydrus_to_weather: iterates the KEYS  *)
(* of the live dict and unpacks each key string into two characters.  A    *)
(* key that is not two characters long raises ValueError; a deletion makes *)
(* the iterator raise RuntimeError at its next step; a KeyError of the del *)
(* is reported as UnknownWeatherFile.                                      *)
RECURSIVE purge_weather_mappings(_, _, _)
purge_weather_mappings(m, weather_file_id, i) ==
    LET d == m.hydrus_to_weather IN
    IF i > Len(d) THEN Result(m, "ok")
    ELSE LET key == d[i][1] IN
         IF Len(key) # 2 THEN Result(m, "ValueError")
         ELSE LET hydrus_id == <<key[1]>>
                  weather_id == <<key[2]>>
              IN  IF weather_id = weather_file_id
                  THEN IF Has(d, hydrus_id)
                       THEN Result([m EXCEPT !.hydrus_to_weather = Del(d, hydrus_id)],
                                   "RuntimeError")
                       ELSE Result(m, "UnknownWeatherFile")
                  ELSE purge_weather_mappings(m, weather_file_id, i + 1)

remove_weather_file(m, weather_file_id) ==
    IF weather_file_id \notin m.weather_files
    THEN Result(m, "UnknownWeatherFile")
    ELSE purge_weather_mappings([m EXCEPT !.weather_files = @ \ {weather_file_id}],
                                weather_file_id, 1)

add_shape_metadata(m, shape_id, shape_color) ==
    [m EXCEPT !.shapes = Put(@, shape_id, shape_color)]

(* variant: the mapping of the removed shape is left in shapes_to_hydrus *)
remove_shape_metadata_keep_mapping(m, shape_id) ==
    IF Has(m.shapes, shape_id)
    THEN Result([m EXCEPT !.shapes = Del(@, shape_id)], "ok")
    ELSE Result(m, "UnknownShape")

remove_shape_metadata(m, shape_id) ==
    IF Has(m.shapes, shape_id)
    THEN Result([m EXCEPT !.shapes = Del(@, shape_id),
                          !.shapes_to_hydrus = Del(@, shape_id)], "ok")
    ELSE Result(m, "UnknownShape")

(* variant: the soil model is not looked up before the mapping is stored *)
map_shape_to_hydrus_unchecked(m, shape_id, hydrus_id) ==
    IF ~contains_shape(m, shape_id) THEN Result(m, "UnknownShape")
    ELSE Result([m EXCEPT !.shapes_to_hydrus = Put(@, shape_id, StrVal(hydrus_id))], "ok")

map_shape_to_hydrus(m, shape_id, hydrus_id) ==
    IF ~contains_shape(m, shape_id) THEN Result(m, "UnknownShape")
    ELSE IF ~contains_hydrus_model(m, hydrus_id) THEN Result(m, "UnknownHydrusModel")
    ELSE Result([m EXCEPT !.shapes_to_hydrus = Put(@, shape_id, StrVal(hydrus_id))], "ok")

map_shape_to_manual_value(m, shape_id, value) ==
    IF ~contains_shape(m, shape_id) THEN Result(m, "UnknownShape")
    ELSE Result([m EXCEPT !.shapes_to_hydrus = Put(@, shape_id, FloatVal(value))], "ok")

map_hydrus_to_weather(m, hydrus_id, weather_id) ==
    IF ~contains_hydrus_model(m, hydrus_id) THEN Result(m, "UnknownHydrusModel")
    ELSE IF ~contains_weather_model(m, weather_id) THEN Result(m, "UnknownWeatherFile")
    ELSE Result([m EXCEPT !.hydrus_to_weather = Put(@, hydrus_id, weather_id)], "ok")

remove_shape_mapping(m, shape_id) ==
    IF ~contains_shape(m, shape_id) THEN Result(m, "UnknownShape")
    ELSE Result([m EXCEPT !.shapes_to_hydrus = Del(@, shape_id)], "ok")

(* variant: the soil model is not looked up, an unknown id is ignored *)
remove_hydrus_weather_mapping_unchecked(m, hydrus_id) ==
    Result([m EXCEPT !.hydrus_to_weather = Del(@, hydrus_id)], "ok")

remove_hydrus_weather_mapping(m, hydrus_id) ==
    IF ~contains_hydrus_model(m, hydrus_id) THEN Result(m, "UnknownHydrusModel")
    ELSE Result([m EXCEPT !.hydrus_to_weather = Del(@, hydrus_id)], "ok")

----------------------------------------------------------------------------
(* String helpers *)

(* s[:-n] *)
DropLast(s, n) == IF Len(s) <= n THEN <<>> ELSE SubSeq(s, 1, Len(s) - n)

ZipExt == <<".", "z", "i", "p">>
CsvExt == <<".", "c", "s", "v">>
(* shape ids are kept as tuples of tokens; the ".npy" token stands for the *)
(* four characters that get_rch_shapes strips with [:-4]                   *)
NpyExt == <<".npy">>

(* str(i) for the indices the model uses *)
ToStr(i) == CASE i = 1 -> "1" [] i = 2 -> "2" [] i = 3 -> "3" [] OTHER -> "n"

RchShapeId(i) == <<"rch_shape_", ToStr(i)>>
ZbShapeId(i) == <<"zb_shape_", ToStr(i)>>

inactive_shape_id == <<"inactive_modflow_cells">>
inactive_shape_color == "#999999"

(* generate_random_html_color(): one representative of the 2^24 colours *)
RandomColors == {"#A1B2C3"}

(* a set as a Python list in some iteration order, and back *)
SetToList(S) ==
    CHOOSE l \in [1..Cardinality(S) -> S] : {l[i] : i \in 1..Cardinality(S)} = S

ListToSet(l) == {l[i] : i \in DOMAIN l}

Orderings(S) ==
    {l \in [1..Cardinality(S) -> S] : {l[i] : i \in 1..Cardinality(S)} = S}

----------------------------------------------------------------------------
(* numpy: a two-dimensional array is its dtype, its memory order and its   *)
(* rows; a .npy file is the header (descr, fortran_order, shape) and the   *)
(* cells in the array's memory order                                       *)

ndarray(dtype, order, rows) == [dtype |-> dtype, order |-> order, rows |-> rows]

dtype_descr(dtype) ==
    CASE dtype = "bool" -> "|b1" [] dtype = "int64" -> "<i8" [] dtype = "float64" -> "<f8"

np_save(arr) ==
    LET R == Len(arr.rows)
        C == Len(arr.rows[1])
    IN  [descr |-> dtype_descr(arr.dtype),
         fortran_order |-> (arr.order = "F"),
         shape |-> <<R, C>>,
         data |-> [k \in 1..(R * C) |->
                     IF arr.order = "F"
                     THEN arr.rows[((k - 1) % R) + 1][((k - 1) \div R) + 1]
                     ELSE arr.rows[((k - 1) \div C) + 1][((k - 1) % C) + 1]]]

(* variant: the cells are read row by row whatever the header says *)
np_load_c_order(file) ==
    [dtype |-> CHOOSE dtype \in {"bool", "int64", "float64"} : dtype_descr(dtype) = file.descr,
     order |-> IF file.fortran_order THEN "F" ELSE "C",
     rows |-> [i \in 1..file.shape[1] |->
                 [j \in 1..file.shape[2] |-> file.data[(i - 1) * file.shape[2] + j]]]]

np_load(file) ==
    [dtype |-> CHOOSE dtype \in {"bool", "int64", "float64"} : dtype_descr(dtype) = file.descr,
     order |-> IF file.fortran_order THEN "F" ELSE "C",
     rows |-> [i \in 1..file.shape[1] |->
                 [j \in 1..file.shape[2] |->
                     IF file.fortran_order
                     THEN file.data[(j - 1) * file.shape[1] + i]
                     ELSE file.data[(i - 1) * file.shape[2] + j]]]]

----------------------------------------------------------------------------
(* Uploaded files *)

HydrusFiles == {[filename |-> id \o ZipExt] : id \in HydrusIds}

WeatherFiles == {[filename |-> id \o CsvExt] : id \in WeatherIds}

(* what modflow_utils.extract_metadata returns for an uploaded archive:    *)
(* the start date, the inactive-cells raster and the recharge rasters      *)
ModflowFiles ==
    {[filename |-> <<"m", "1">> \o ZipExt, start_date |-> "2020-01-01",
      inactive |-> ndarray("bool", "C", <<<<1, 0>>, <<0, 0>>>>),
      rch_shapes |-> <<ndarray("int64", "C", <<<<1, 1>>, <<0, 0>>>>)>>],
     [filename |-> <<"m", "2">> \o ZipExt, start_date |-> "2021-06-01",
      inactive |-> ndarray("bool", "C", <<<<0, 0>>, <<0, 1>>>>),
      rch_shapes |-> <<ndarray("int64", "C", <<<<1, 0>>, <<1, 0>>>>),
                       ndarray("int64", "C", <<<<0, 1>>, <<0, 1>>>>)>>]}

ModflowMetadata(modflow_id) == [modflow_id |-> modflow_id]

(* what zonebudget_shape_parser.read_zone_file returns for a zone file *)
ZbFiles == {[zones |-> <<ndarray("int64", "C", <<<<1, 1>>, <<1, 0>>>>)>>]}

(* shape ids the service is called with: a fresh id, the reserved id and   *)
(* the first recharge and zone shapes                                      *)
ShapeIds == {shape_t, inactive_shape_id, RchShapeId(1), ZbShapeId(1)}

----------------------------------------------------------------------------
(* ProjectDao: the local hierarchical store of one project.                *)
(*   f.metadata    metadata.json (parsed JSON)                             *)
(*   f.modflow     sub-directories of modflow/                             *)
(*   f.hydrus      sub-directories of hydrus/                              *)
(*   f.weather     files of weather/                                       *)
(*   f.shapes      files of shapes/      (file name -> .npy file)          *)
(*   f.rch_shapes  files of rch_shapes/  (file name -> .npy file)          *)
(*   f.dirs        the sub-directories of the project directory that exist *)
(*   f.archive     <project_id>.zip, None while it was never made          *)
(* f.metadata is None while the project directory has no metadata.json.    *)

ProjectId == "demo"

Dao(f, e) == [fs |-> f, err |-> e]

Without(g, k) == [x \in (DOMAIN g) \ {k} |-> g[x]]

With(g, k, v) == [x \in (DOMAIN g) \cup {k} |-> IF x = k THEN v ELSE g[x]]

EmptyDir == [x \in {} |-> ""]

WORKSPACE_PATH == "workspace"

(* the sub-directories that save_or_update_metadata makes *)
SubDirs == {"modflow", "hydrus", "weather", "shapes", "rch_shapes"}

(* os.makedirs(project_path): a project directory with nothing in it *)
NewProjectDir ==
    [metadata |-> None, modflow |-> {}, hydrus |-> {}, weather |-> {},
     shapes |-> EmptyDir, rch_shapes |-> EmptyDir, dirs |-> {}, archive |-> None]

(* to_json_response + json.dump: the sets are written as lists *)
to_json_response(m) ==
    [m EXCEPT !.hydrus_models = SetToList(@), !.weather_files = SetToList(@)]

(* json.load + ProjectMetadata.__post_init__: the lists become sets again *)
read_metadata(f) ==
    [f.metadata EXCEPT !.hydrus_models = ListToSet(@), !.weather_files = ListToSet(@)]

(* variant: the weather files already persisted are kept in the record *)
save_or_update_metadata_merged(f, m) ==
    [f EXCEPT !.metadata =
                  to_json_response(
                      IF f.metadata = None THEN m
                      ELSE [m EXCEPT !.weather_files = @ \cup ListToSet(f.metadata.weather_files)]),
              !.dirs = @ \cup SubDirs]

save_or_update_metadata(f, m) ==
    [f EXCEPT !.metadata = to_json_response(m), !.dirs = @ \cup SubDirs]

get_shape_path(shape_id) == shape_id \o NpyExt

get_rch_shape_filepath(shape_id) == shape_id \o NpyExt

dao_add_hydrus_model(f, hydrus_id) ==
    IF hydrus_id \in f.hydrus THEN Dao(f, "FileExistsError")
    ELSE Dao([f EXCEPT !.hydrus = @ \cup {hydrus_id}, !.dirs = @ \cup {"hydrus"}], "ok")

dao_add_modflow_model(f, modflow_id) ==
    IF modflow_id \in f.modflow THEN Dao(f, "FileExistsError")
    ELSE Dao([f EXCEPT !.modflow = @ \cup {modflow_id}, !.dirs = @ \cup {"modflow"}], "ok")

dao_delete_hydrus_model(f, hydrus_id) ==
    IF hydrus_id \notin f.hydrus THEN Dao(f, "FileNotFoundError")
    ELSE Dao([f EXCEPT !.hydrus = @ \ {hydrus_id}], "ok")

(* variant: the rch_shapes directory is not emptied *)
dao_delete_modflow_model_keep_rch(f, modflow_id) ==
    IF modflow_id \notin f.modflow THEN Dao(f, "FileNotFoundError")
    ELSE Dao([f EXCEPT !.modflow = @ \ {modflow_id}], "ok")

(* rmtree of the model directory, then rmtree and makedirs of rch_shapes/: *)
(* without rch_shapes/ the second rmtree raises after the first one acted  *)
dao_delete_modflow_model(f, modflow_id) ==
    IF modflow_id \notin f.modflow THEN Dao(f, "FileNotFoundError")
    ELSE IF "rch_shapes" \notin f.dirs
    THEN Dao([f EXCEPT !.modflow = @ \ {modflow_id}], "FileNotFoundError")
    ELSE Dao([f EXCEPT !.modflow = @ \ {modflow_id}, !.rch_shapes = EmptyDir], "ok")

dao_add_weather_file(f, weather_id) ==
    [f EXCEPT !.weather = @ \cup {weather_id}, !.dirs = @ \cup {"weather"}]

dao_delete_weather_file(f, weather_file_id) ==
    IF weather_file_id \notin f.weather THEN Dao(f, "FileNotFoundError")
    ELSE Dao([f EXCEPT !.weather = @ \ {weather_file_id}], "ok")

dao_save_or_update_shape(f, shape_id, shape_mask) ==
    [f EXCEPT !.shapes = With(@, get_shape_path(shape_id), np_save(shape_mask)),
              !.dirs = @ \cup {"shapes"}]

dao_get_shape(f, shape_id) ==
    IF get_shape_path(shape_id) \notin DOMAIN f.shapes
    THEN [mask |-> None, err |-> "FileNotFoundError"]
    ELSE [mask |-> np_load(f.shapes[get_shape_path(shape_id)]), err |-> "ok"]

dao_delete_shape(f, shape_id) ==
    IF get_shape_path(shape_id) \notin DOMAIN f.shapes THEN Dao(f, "FileNotFoundError")
    ELSE Dao([f EXCEPT !.shapes = Without(@, get_shape_path(shape_id))], "ok")

(* os.listdir returns the file names in arbitrary order: listing is one of *)
(* the orders; the result is the dict {name[:-4]: mask} in that order      *)
dao_get_rch_shapes(f, listing) ==
    [i \in DOMAIN listing |->
        <<DropLast(listing[i], 1),
          np_load(f.rch_shapes[get_rch_shape_filepath(DropLast(listing[i], 1))])>>]

(* variant: the rasters are numbered from the last one to the first *)
dao_add_modflow_rch_shapes_reversed(f, rch_shapes, i) ==
    LET n == Len(rch_shapes)
        names == {get_rch_shape_filepath(RchShapeId(k)) : k \in i..n}
        index(x) == CHOOSE k \in i..n : x = get_rch_shape_filepath(RchShapeId(k))
    IN  [f EXCEPT !.rch_shapes =
            [x \in (DOMAIN @) \cup names |->
                IF x \in names THEN np_save(rch_shapes[n + i - index(x)]) ELSE @[x]],
                  !.dirs = @ \cup {"rch_shapes"}]

RECURSIVE dao_add_modflow_rch_shapes(_, _, _)
dao_add_modflow_rch_shapes(f, rch_shapes, i) ==
    IF i > Len(rch_shapes) THEN [f EXCEPT !.dirs = @ \cup {"rch_shapes"}]
    ELSE dao_add_modflow_rch_shapes(
            [f EXCEPT !.rch_shapes = With(@, get_rch_shape_filepath(RchShapeId(i)),
                                          np_save(rch_shapes[i]))],
            rch_shapes, i + 1)

----------------------------------------------------------------------------
(* ProjectDao on the workspace directory: w maps the path of every project *)
(* directory that exists to its content                                    *)

OtherProjectId == "other"

ProjectIds == {ProjectId, OtherProjectId}

(* variant: every project is kept in the same directory *)
get_project_path_shared(project_id) == <<WORKSPACE_PATH, ProjectId>>

get_project_path(project_id) == <<WORKSPACE_PATH, project_id>>

(* the last component of get_simulation_path *)
SIMULATION_DIR == "simulation"

project_exists(w, project_id) == get_project_path(project_id) \in DOMAIN w

(* the project directory, made on the way by an os.makedirs of a path in   *)
(* it when it does not exist                                               *)
project_dir(w, project_id) ==
    IF project_exists(w, project_id) THEN w[get_project_path(project_id)]
    ELSE NewProjectDir

put_project_dir(w, project_id, f) == With(w, get_project_path(project_id), f)

(* os.listdir(WORKSPACE_PATH) *)
read_all_names(w) == {path[2] : path \in DOMAIN w}

ws_read_metadata(w, project_id) ==
    IF ~project_exists(w, project_id) THEN Result(None, "FileNotFoundError")
    ELSE IF w[get_project_path(project_id)].metadata = None
    THEN Result(None, "FileNotFoundError")
    ELSE Result(read_metadata(w[get_project_path(project_id)]), "ok")

(* variant: the shapes directory is made anew at every write *)
ws_save_or_update_metadata_fresh_shapes(w, m) ==
    put_project_dir(w, m.project_id,
        [save_or_update_metadata(project_dir(w, m.project_id), m)
            EXCEPT !.shapes = EmptyDir])

ws_save_or_update_metadata(w, m) ==
    put_project_dir(w, m.project_id,
                    save_or_update_metadata(project_dir(w, m.project_id), m))

(* variant: the OSError of shutil.rmtree is not caught *)
dao_delete_project_uncaught(w, project_id) ==
    IF ~project_exists(w, project_id) THEN [ws |-> w, err |-> "FileNotFoundError"]
    ELSE [ws |-> Without(w, get_project_path(project_id)), err |-> "ok"]

(* shutil.rmtree in try/except OSError: a missing directory is logged *)
dao_delete_project(w, project_id) ==
    IF ~project_exists(w, project_id) THEN [ws |-> w, err |-> "ok"]
    ELSE [ws |-> Without(w, get_project_path(project_id)), err |-> "ok"]

(* shutil.make_archive(<project>/<project_id>, "zip", <project>/simulation) *)
dao_download_project(f, project_id) ==
    IF SIMULATION_DIR \notin f.dirs THEN Dao(f, "FileNotFoundError")
    ELSE Dao([f EXCEPT !.archive = Some(<<project_id, ".zip">>)], "ok")

----------------------------------------------------------------------------
(* MinIOController: b is the root bucket, a map from keys to objects.  A   *)
(* key is the tuple of its characters.                                     *)

(* the keys the model uses, in the order in which list_objects yields them *)
BucketKeys ==
    <<<<"p", "/", "a">>, <<"p", "/", "d", "/", "c">>, <<"q", "/", "a">>>>

(* list_objects(ROOT_BUCKET, name_prefix, recursive=True): every key that  *)
(* starts with the prefix                                                  *)
list_bucket_content(b, name_prefix) ==
    SelectSeq(BucketKeys,
              LAMBDA key : /\ key \in DOMAIN b
                           /\ Len(key) >= Len(name_prefix)
                           /\ SubSeq(key, 1, Len(name_prefix)) = name_prefix)

(* remove_object: removing a key that is not there is no error *)
delete_file(b, object_location) == Without(b, object_location)

(* variant: only the keys directly under the prefix are listed *)
delete_directory_shallow(b, dir_location, failing) ==
    LET files_to_delete ==
            SelectSeq(list_bucket_content(b, dir_location),
                      LAMBDA key : \A i \in (Len(dir_location) + 1)..Len(key) : key[i] # "/")
        failed == {i \in DOMAIN files_to_delete : files_to_delete[i] \in failing}
        deleted == IF failed = {} THEN DOMAIN files_to_delete
                   ELSE {i \in DOMAIN files_to_delete : \A j \in failed : i < j}
    IN  [bucket |-> [key \in (DOMAIN b) \ {files_to_delete[i] : i \in deleted} |-> b[key]],
         err |-> IF failed = {} THEN "ok" ELSE "S3Error"]

(* failing is the set of keys whose remove_object raises: the loop deletes *)
(* the listed keys one by one and the first exception leaves it            *)
delete_directory(b, dir_location, failing) ==
    LET files_to_delete == list_bucket_content(b, dir_location)
        failed == {i \in DOMAIN files_to_delete : files_to_delete[i] \in failing}
        deleted == IF failed = {} THEN DOMAIN files_to_delete
                   ELSE {i \in DOMAIN files_to_delete : \A j \in failed : i < j}
        RECURSIVE loop(_, _)
        loop(b1, i) == IF i \notin deleted THEN b1
                       ELSE loop(delete_file(b1, files_to_delete[i]), i + 1)
    IN  [bucket |-> loop(b, 1), err |-> IF failed = {} THEN "ok" ELSE "S3Error"]

----------------------------------------------------------------------------
(* Project Service: every operation maps the store to the store it leaves  *)
(* behind and the exception it ends with ("ok" when it returns)            *)

Svc(f, e) == [fs |-> f, err |-> e]

svc_add_hydrus_model(f, hydrus_model) ==
    LET metadata == read_metadata(f)
        hydrus_id == DropLast(hydrus_model.filename, 4)
        stored == dao_add_hydrus_model(f, hydrus_id)
        added == add_hydrus_model(metadata, hydrus_id)
    IN  IF stored.err # "ok" THEN Svc(f, stored.err)
        ELSE IF added.err # "ok" THEN Svc(stored.fs, added.err)
        ELSE Svc(save_or_update_metadata(stored.fs, added.md), "ok")

svc_delete_hydrus_model(f, hydrus_id) ==
    LET metadata == read_metadata(f)
        removed == remove_hydrus_model(metadata, hydrus_id)
        deleted == dao_delete_hydrus_model(f, hydrus_id)
    IN  IF removed.err # "ok" THEN Svc(f, removed.err)
        ELSE IF deleted.err # "ok" THEN Svc(f, deleted.err)
        ELSE Svc(save_or_update_metadata(deleted.fs, removed.md), "ok")

svc_set_modflow_model(f, modflow_model) ==
    LET metadata == read_metadata(f)
        old == IF metadata.modflow_metadata # None
               THEN dao_delete_modflow_model(f, metadata.modflow_metadata[1].modflow_id)
               ELSE Dao(f, "ok")
        modflow_id == DropLast(modflow_model.filename, 4)
        model_metadata == ModflowMetadata(modflow_id)
        stored == dao_add_modflow_model(old.fs, modflow_id)
        f1 == dao_save_or_update_shape(stored.fs, inactive_shape_id, modflow_model.inactive)
        m1 == add_shape_metadata(set_modflow_metadata(metadata, model_metadata),
                                 inactive_shape_id, inactive_shape_color)
        m2 == [m1 EXCEPT !.start_date = Some(modflow_model.start_date)]
        f2 == save_or_update_metadata(f1, m2)
    IN  IF old.err # "ok" THEN Svc(f, old.err)
        ELSE IF stored.err # "ok" THEN Svc(old.fs, stored.err)
        ELSE Svc(dao_add_modflow_rch_shapes(f2, modflow_model.rch_shapes, 1), "ok")

RECURSIVE wipe_loop(_, _, _, _)
wipe_loop(f, m, shape_ids, i) ==
    IF i > Len(shape_ids) THEN Svc(save_or_update_metadata(f, m), "ok")
    ELSE LET deleted == dao_delete_shape(f, shape_ids[i])
             removed == remove_shape_metadata(m, shape_ids[i])
         IN  IF deleted.err # "ok" THEN Svc(f, deleted.err)
             ELSE IF removed.err # "ok" THEN Svc(deleted.fs, removed.err)
             ELSE wipe_loop(deleted.fs, removed.md, shape_ids, i + 1)

svc_wipe_all_shapes(f) ==
    LET metadata == read_metadata(f)
        shape_ids == [i \in DOMAIN metadata.shapes |-> metadata.shapes[i][1]]
    IN  wipe_loop(f, metadata, shape_ids, 1)

(* project_dao.delete_rch_shapes is called at project_service.py:96, and   *)
(* ProjectDao defines no such method: the call raises AttributeError and   *)
(* the statements after it never run.                                      *)
svc_delete_modflow_model(f) ==
    LET metadata == read_metadata(f)
        wiped == svc_wipe_all_shapes(f)
    IN  IF metadata.modflow_metadata = None THEN Svc(f, "AttributeError")
        ELSE IF wiped.err # "ok" THEN Svc(wiped.fs, wiped.err)
        ELSE Svc(wiped.fs, "AttributeError")

svc_add_weather_file(f, weather_file) ==
    LET metadata == read_metadata(f)
        weather_id == DropLast(weather_file.filename, 4)
        added == add_weather_file(metadata, weather_id)
    IN  IF added.err # "ok" THEN Svc(f, added.err)
        ELSE Svc(save_or_update_metadata(dao_add_weather_file(f, weather_id), added.md), "ok")

svc_delete_weather_file(f, weather_id) ==
    LET metadata == read_metadata(f)
        removed == remove_weather_file(metadata, weather_id)
        deleted == dao_delete_weather_file(f, weather_id)
    IN  IF removed.err # "ok" THEN Svc(f, removed.err)
        ELSE IF deleted.err # "ok" THEN Svc(f, deleted.err)
        ELSE Svc(save_or_update_metadata(deleted.fs, removed.md), "ok")

RECURSIVE save_masks(_, _, _)
save_masks(f, shape_data, i) ==
    IF i > Len(shape_data) THEN f
    ELSE save_masks(dao_save_or_update_shape(f, shape_data[i][1], shape_data[i][2]),
                    shape_data, i + 1)

RECURSIVE update_shapes(_, _, _, _)
update_shapes(shapes, shape_data, colors, i) ==
    IF i > Len(shape_data) THEN shapes
    ELSE update_shapes(Put(shapes, shape_data[i][1], colors[i]), shape_data, colors, i + 1)

(* __save_new_shapes; colors[i] is the random colour drawn for the i-th shape *)
save_new_shapes(f, shape_data, colors) ==
    LET f1 == save_masks(f, shape_data, 1)
        metadata == read_metadata(f1)
        m1 == [metadata EXCEPT !.shapes = update_shapes(@, shape_data, colors, 1)]
    IN  Svc(save_or_update_metadata(f1, m1), "ok")

svc_add_rch_shapes(f, listing, colors) ==
    save_new_shapes(f, dao_get_rch_shapes(f, listing), colors)

svc_add_zb_shapes(f, zb_file, colors) ==
    save_new_shapes(f, [i \in DOMAIN zb_file.zones |-> <<ZbShapeId(i), zb_file.zones[i]>>],
                    colors)

svc_save_or_update_shape(f, shape_id, color, new_shape_id) ==
    LET metadata == read_metadata(f)
        rename == contains_shape(metadata, shape_id) /\ shape_id # new_shape_id
        deleted == dao_delete_shape(f, shape_id)
        mapped == Has(metadata.shapes_to_hydrus, shape_id)
        current_shape_mapping == Get(metadata.shapes_to_hydrus, shape_id)
        carried == IF ~mapped THEN Result(metadata, "ok")
                   ELSE IF IsFloat(current_shape_mapping)
                   THEN map_shape_to_manual_value(metadata, new_shape_id,
                                                  current_shape_mapping[2])
                   ELSE map_shape_to_hydrus(metadata, new_shape_id, current_shape_mapping[2])
        unmapped == IF ~mapped THEN carried ELSE remove_shape_mapping(carried.md, shape_id)
        removed == remove_shape_metadata(unmapped.md, shape_id)
    IN  IF ~rename
        THEN Svc(save_or_update_metadata(f, add_shape_metadata(metadata, new_shape_id, color)),
                 "ok")
        ELSE IF deleted.err # "ok" THEN Svc(f, deleted.err)
        ELSE IF carried.err # "ok" THEN Svc(deleted.fs, carried.err)
        ELSE IF unmapped.err # "ok" THEN Svc(deleted.fs, unmapped.err)
        ELSE IF removed.err # "ok" THEN Svc(deleted.fs, removed.err)
        ELSE Svc(save_or_update_metadata(deleted.fs,
                    add_shape_metadata(removed.md, new_shape_id, color)), "ok")

svc_delete_shape(f, shape_id) ==
    LET metadata == read_metadata(f)
        removed == remove_shape_metadata(metadata, shape_id)
        deleted == dao_delete_shape(f, shape_id)
    IN  IF removed.err # "ok" THEN Svc(f, removed.err)
        ELSE IF deleted.err # "ok" THEN Svc(f, deleted.err)
        ELSE Svc(save_or_update_metadata(deleted.fs, removed.md), "ok")

(* get_all_shapes up to the polygons: the masks of the shapes of the       *)
(* metadata are loaded in the order of the dict, the first one without a   *)
(* file ends the call                                                      *)
svc_get_all_shapes(f) ==
    LET metadata == read_metadata(f)
        missing == {i \in DOMAIN metadata.shapes :
                       dao_get_shape(f, metadata.shapes[i][1]).err # "ok"}
    IN  IF missing = {} THEN Svc(f, "ok")
        ELSE Svc(f, dao_get_shape(f, metadata.shapes[CHOOSE i \in missing :
                                        \A j \in missing : i <= j][1]).err)

(* the five operations that read the metadata, call one ProjectMetadata    *)
(* method and write the metadata back                                      *)
svc_metadata_only(f, r) ==
    IF r.err # "ok" THEN Svc(f, r.err) ELSE Svc(save_or_update_metadata(f, r.md), "ok")

svc_map_shape_to_hydrus(f, shape_id, hydrus_id) ==
    svc_metadata_only(f, map_shape_to_hydrus(read_metadata(f), shape_id, hydrus_id))

svc_map_shape_to_manual_value(f, shape_id, value) ==
    svc_metadata_only(f, map_shape_to_manual_value(read_metadata(f), shape_id, value))

svc_map_hydrus_to_weather_file(f, hydrus_id, weather_id) ==
    svc_metadata_only(f, map_hydrus_to_weather(read_metadata(f), hydrus_id, weather_id))

svc_remove_shape_mapping(f, shape_id) ==
    svc_metadata_only(f, remove_shape_mapping(read_metadata(f), shape_id))

svc_remove_weather_hydrus_mapping(f, hydrus_id) ==
    svc_metadata_only(f, remove_hydrus_weather_mapping(read_metadata(f), hydrus_id))

(* variant: the archive is made without looking at the finished flag *)
svc_download_project_unguarded(w, project_id) ==
    LET read == ws_read_metadata(w, project_id)
        made == dao_download_project(project_dir(w, project_id), project_id)
    IN  IF read.err # "ok" THEN [ws |-> w, err |-> read.err]
        ELSE [ws |-> put_project_dir(w, project_id, made.fs), err |-> made.err]

svc_download_project(w, project_id) ==
    LET read == ws_read_metadata(w, project_id)
        made == dao_download_project(project_dir(w, project_id), project_id)
    IN  IF read.err # "ok" THEN [ws |-> w, err |-> read.err]
        ELSE IF ~read.md.finished
        THEN [ws |-> w, err |-> "ProjectSimulationNotFinishedError"]
        ELSE [ws |-> put_project_dir(w, project_id, made.fs), err |-> made.err]

----------------------------------------------------------------------------
(* State: md is a ProjectMetadata object in memory, fs the project's store *)
(* (its metadata.json and artifacts), last the operation that ran last and *)
(* how it ended, ops the number of operations run so far, ws the workspace *)
(* directory (project directory path -> content), run the service call     *)
(* each caller is in the middle of, bucket the root bucket of the object   *)
(* store (key -> object).                                                  *)

NoArg == <<>>

Called(op, a1, a2, err) == [op |-> op, a1 |-> a1, a2 |-> a2, err |-> err]

Callers == {1, 2}

Idle ==
    [op |-> "none", project |-> ProjectId, a1 |-> NoArg, a2 |-> NoArg, pc |-> "idle",
     read |-> None, metadata |-> None, saved |-> FALSE, err |-> "ok",
     start |-> None, origin |-> None]

(* a project as save_or_update_metadata(ProjectMetadata(project_id)) makes *)
(* it in an empty workspace                                                *)
SavedNewProject(project_id) ==
    save_or_update_metadata(NewProjectDir, NewProjectMetadata(project_id))

Init ==
    /\ md = NewProjectMetadata(ProjectId)
    /\ fs = [metadata |-> to_json_response(NewProjectMetadata(ProjectId)),
             modflow |-> {}, hydrus |-> {}, weather |-> {},
             shapes |-> EmptyDir, rch_shapes |-> EmptyDir,
             dirs |-> SubDirs, archive |-> None]
    /\ last = Called("init", NoArg, NoArg, "ok")
    /\ ops = 0
    /\ ws = [path \in {get_project_path(p) : p \in ProjectIds} |->
                SavedNewProject(path[2])]
    /\ run = [c \in Callers |-> Idle]
    /\ bucket = EmptyDir

(* a service call: the store becomes what the operation leaves behind *)
Serve(op, a1, a2, r) ==
    /\ ops < MaxOps
    /\ fs' = r.fs
    /\ last' = Called(op, a1, a2, r.err)
    /\ ops' = ops + 1
    /\ UNCHANGED <<md, ws, run, bucket>>

AddHydrusModel ==
    \E hydrus_model \in HydrusFiles :
        Serve("add_hydrus_model", DropLast(hydrus_model.filename, 4), NoArg,
              svc_add_hydrus_model(fs, hydrus_model))

DeleteHydrusModel ==
    \E hydrus_id \in HydrusIds :
        Serve("delete_hydrus_model", hydrus_id, NoArg, svc_delete_hydrus_model(fs, hydrus_id))

SetModflowModel ==
    \E modflow_model \in ModflowFiles :
        Serve("set_modflow_model", DropLast(modflow_model.filename, 4), NoArg,
              svc_set_modflow_model(fs, modflow_model))

DeleteModflowModel ==
    Serve("delete_modflow_model", NoArg, NoArg, svc_delete_modflow_model(fs))

AddWeatherFile ==
    \E weather_file \in WeatherFiles :
        Serve("add_weather_file", DropLast(weather_file.filename, 4), NoArg,
              svc_add_weather_file(fs, weather_file))

DeleteWeatherFile ==
    \E weather_id \in WeatherIds :
        Serve("delete_weather_file", weather_id, NoArg, svc_delete_weather_file(fs, weather_id))

AddRchShapes ==
    \E listing \in Orderings(DOMAIN fs.rch_shapes) :
        \E colors \in [DOMAIN listing -> RandomColors] :
            Serve("add_rch_shapes", NoArg, NoArg, svc_add_rch_shapes(fs, listing, colors))

AddZbShapes ==
    \E zb_file \in ZbFiles :
        \E colors \in [DOMAIN zb_file.zones -> RandomColors] :
            Serve("add_zb_shapes", NoArg, NoArg, svc_add_zb_shapes(fs, zb_file, colors))

SaveOrUpdateShape ==
    \E shape_id \in ShapeIds, new_shape_id \in ShapeIds, color \in UserColors :
        Serve("save_or_update_shape", shape_id, new_shape_id,
              svc_save_or_update_shape(fs, shape_id, color, new_shape_id))

DeleteShape ==
    \E shape_id \in ShapeIds :
        Serve("delete_shape", shape_id, NoArg, svc_delete_shape(fs, shape_id))

MapShapeToHydrus ==
    \E shape_id \in ShapeIds, hydrus_id \in HydrusIds :
        Serve("map_shape_to_hydrus", shape_id, hydrus_id,
              svc_map_shape_to_hydrus(fs, shape_id, hydrus_id))

MapShapeToManualValue ==
    \E shape_id \in ShapeIds, value \in ManualValues :
        Serve("map_shape_to_manual_value", shape_id, value,
              svc_map_shape_to_manual_value(fs, shape_id, value))

MapHydrusToWeatherFile ==
    \E hydrus_id \in HydrusIds, weather_id \in WeatherIds :
        Serve("map_hydrus_to_weather_file", hydrus_id, weather_id,
              svc_map_hydrus_to_weather_file(fs, hydrus_id, weather_id))

RemoveShapeMapping ==
    \E shape_id \in ShapeIds :
        Serve("remove_shape_mapping", shape_id, NoArg, svc_remove_shape_mapping(fs, shape_id))

RemoveWeatherHydrusMapping ==
    \E hydrus_id \in HydrusIds :
        Serve("remove_weather_hydrus_mapping", hydrus_id, NoArg,
              svc_remove_weather_hydrus_mapping(fs, hydrus_id))

WipeAllShapes ==
    Serve("wipe_all_shapes", NoArg, NoArg, svc_wipe_all_shapes(fs))

Next ==
    \/ AddHydrusModel
    \/ DeleteHydrusModel
    \/ SetModflowModel
    \/ DeleteModflowModel
    \/ AddWeatherFile
    \/ DeleteWeatherFile
    \/ AddRchShapes
    \/ AddZbShapes
    \/ SaveOrUpdateShape
    \/ DeleteShape
    \/ MapShapeToHydrus
    \/ MapShapeToManualValue
    \/ MapHydrusToWeatherFile
    \/ RemoveShapeMapping
    \/ RemoveWeatherHydrusMapping
    \/ WipeAllShapes

Spec == Init /\ [][Next]_vars

----------------------------------------------------------------------------
(* The ProjectMetadata object on its own: each method called on md, which  *)
(* keeps whatever the method did before it raised                          *)

Call(op, a1, a2, r) ==
    /\ ops < MaxCalls
    /\ md' = r.md
    /\ last' = Called(op, a1, a2, r.err)
    /\ ops' = ops + 1
    /\ UNCHANGED <<fs, ws, run, bucket>>

MdAddHydrusModel ==
    \E hydrus_id \in MetaHydrusIds :
        Call("md.add_hydrus_model", hydrus_id, NoArg, add_hydrus_model(md, hydrus_id))

MdRemoveHydrusModel ==
    \E hydrus_id \in MetaHydrusIds :
        Call("md.remove_hydrus_model", hydrus_id, NoArg, remove_hydrus_model(md, hydrus_id))

MdAddWeatherFile ==
    \E weather_id \in WeatherIds :
        Call("md.add_weather_file", weather_id, NoArg, add_weather_file(md, weather_id))

MdRemoveWeatherFile ==
    \E weather_id \in WeatherIds :
        Call("md.remove_weather_file", weather_id, NoArg, remove_weather_file(md, weather_id))

MdAddShapeMetadata ==
    \E shape_id \in UserShapeIds, color \in UserColors :
        Call("md.add_shape_metadata", shape_id, NoArg,
             Result(add_shape_metadata(md, shape_id, color), "ok"))

MdRemoveShapeMetadata ==
    \E shape_id \in UserShapeIds :
        Call("md.remove_shape_metadata", shape_id, NoArg, remove_shape_metadata(md, shape_id))

MdMapShapeToHydrus ==
    \E shape_id \in UserShapeIds, hydrus_id \in MetaHydrusIds :
        Call("md.map_shape_to_hydrus", shape_id, hydrus_id,
             map_shape_to_hydrus(md, shape_id, hydrus_id))

MdMapShapeToManualValue ==
    \E shape_id \in UserShapeIds, value \in ManualValues :
        Call("md.map_shape_to_manual_value", shape_id, value,
             map_shape_to_manual_value(md, shape_id, value))

MdMapHydrusToWeather ==
    \E hydrus_id \in MetaHydrusIds, weather_id \in WeatherIds :
        Call("md.map_hydrus_to_weather", hydrus_id, weather_id,
             map_hydrus_to_weather(md, hydrus_id, weather_id))

MdRemoveShapeMapping ==
    \E shape_id \in UserShapeIds :
        Call("md.remove_shape_mapping", shape_id, NoArg, remove_shape_mapping(md, shape_id))

MdRemoveHydrusWeatherMapping ==
    \E hydrus_id \in MetaHydrusIds :
        Call("md.remove_hydrus_weather_mapping", hydrus_id, NoArg,
             remove_hydrus_weather_mapping(md, hydrus_id))

NextMeta ==
    \/ MdAddHydrusModel
    \/ MdRemoveHydrusModel
    \/ MdAddWeatherFile
    \/ MdRemoveWeatherFile
    \/ MdAddShapeMetadata
    \/ MdRemoveShapeMetadata
    \/ MdMapShapeToHydrus
    \/ MdMapShapeToManualValue
    \/ MdMapHydrusToWeather
    \/ MdRemoveShapeMapping
    \/ MdRemoveHydrusWeatherMapping

SpecMeta == Init /\ [][NextMeta]_vars

----------------------------------------------------------------------------
(* The workspace: the project-level calls of the service (save, delete,    *)
(* download, get, names), the ProjectDao writes that make directories on   *)
(* their way, and the simulation writing its output directory.             *)

(* the ProjectMetadata objects that are saved *)
MetadataInputs ==
    {[NewProjectMetadata(p) EXCEPT !.finished = b, !.weather_files = W] :
        p \in ProjectIds, b \in BOOLEAN, W \in {{}, {id_b}}}

Store(op, a1, a2, r) ==
    /\ ops < MaxStoreOps
    /\ ws' = r.ws
    /\ last' = Called(op, a1, a2, r.err)
    /\ ops' = ops + 1
    /\ UNCHANGED <<md, fs, run, bucket>>

StoreSaveOrUpdateMetadata ==
    \E metadata \in MetadataInputs :
        Store("save_or_update_metadata", metadata.project_id, metadata,
              [ws |-> ws_save_or_update_metadata(ws, metadata), err |-> "ok"])

StoreDelete ==
    \E project_id \in ProjectIds :
        Store("delete", project_id, NoArg, dao_delete_project(ws, project_id))

StoreDownloadProject ==
    \E project_id \in ProjectIds :
        Store("download_project", project_id, NoArg, svc_download_project(ws, project_id))

StoreGet ==
    \E project_id \in ProjectIds :
        Store("get", project_id, ws_read_metadata(ws, project_id).md,
              [ws |-> ws, err |-> ws_read_metadata(ws, project_id).err])

StoreGetAllProjectNames ==
    Store("get_all_project_names", read_all_names(ws), NoArg, [ws |-> ws, err |-> "ok"])

StoreAddWeatherFile ==
    \E project_id \in ProjectIds, weather_id \in {id_b} :
        Store("dao.add_weather_file", project_id, weather_id,
              [ws |-> put_project_dir(ws, project_id,
                          dao_add_weather_file(project_dir(ws, project_id), weather_id)),
               err |-> "ok"])

StoreSaveOrUpdateShape ==
    \E project_id \in ProjectIds, shape_id \in {shape_s},
       mask \in {ndarray("bool", "C", <<<<1>>>>)} :
        Store("dao.save_or_update_shape", project_id, shape_id,
              [ws |-> put_project_dir(ws, project_id,
                          dao_save_or_update_shape(project_dir(ws, project_id),
                                                   shape_id, mask)),
               err |-> "ok"])

(* the simulation of a project writes its output under simulation/ *)
StoreSimulationOutput ==
    \E project_id \in ProjectIds :
        /\ project_exists(ws, project_id)
        /\ Store("simulation", project_id, NoArg,
                 [ws |-> put_project_dir(ws, project_id,
                             [project_dir(ws, project_id)
                                 EXCEPT !.dirs = @ \cup {SIMULATION_DIR}]),
                  err |-> "ok"])

NextStore ==
    \/ StoreSaveOrUpdateMetadata
    \/ StoreDelete
    \/ StoreDownloadProject
    \/ StoreGet
    \/ StoreGetAllProjectNames
    \/ StoreAddWeatherFile
    \/ StoreSaveOrUpdateShape
    \/ StoreSimulationOutput

SpecStore == Init /\ [][NextStore]_vars

----------------------------------------------------------------------------
(* A service call store access by store access.  r is the call in          *)
(* progress: its arguments, r.pc the store access it makes next, r.read    *)
(* the metadata as read_metadata returned it, r.metadata the object the    *)
(* call will write, r.saved whether it wrote it, r.start the project       *)
(* directory when the call began, r.origin the directory when the call was *)
(* first issued if this call re-issues one that did not complete.  d is    *)
(* the project directory.  What the code does in memory between two store  *)
(* accesses is part of the later one.                                      *)

Stop(r, d, err) == [run |-> [r EXCEPT !.pc = "done", !.err = err], dir |-> d]

Go(r, d, pc) == [run |-> [r EXCEPT !.pc = pc], dir |-> d]

step_read(r, d, pc) ==
    IF d.metadata = None THEN Stop(r, d, "FileNotFoundError")
    ELSE Go([r EXCEPT !.read = read_metadata(d), !.metadata = read_metadata(d)], d, pc)

step_save(r, d, metadata) ==
    Stop([r EXCEPT !.metadata = metadata, !.saved = TRUE],
         save_or_update_metadata(d, metadata), "ok")

step_add_hydrus_model(r, d) ==
    CASE r.pc = "read" -> step_read(r, d, "store")
      [] r.pc = "store" ->
            LET stored == dao_add_hydrus_model(d, r.a1)
            IN  IF stored.err # "ok" THEN Stop(r, d, stored.err)
                ELSE Go(r, stored.fs, "save")
      [] r.pc = "save" ->
            LET added == add_hydrus_model(r.metadata, r.a1)
            IN  IF added.err # "ok" THEN Stop(r, d, added.err)
                ELSE step_save(r, d, added.md)

(* delete_hydrus_model, delete_weather_file, delete_shape: the metadata    *)
(* method, then the ProjectDao delete, then the metadata write             *)
step_delete(r, d) ==
    CASE r.pc = "read" -> step_read(r, d, "delete")
      [] r.pc = "delete" ->
            LET removed == CASE r.op = "delete_hydrus_model" ->
                                    remove_hydrus_model(r.metadata, r.a1)
                             [] r.op = "delete_weather_file" ->
                                    remove_weather_file(r.metadata, r.a1)
                             [] r.op = "delete_shape" ->
                                    remove_shape_metadata(r.metadata, r.a1)
                deleted == CASE r.op = "delete_hydrus_model" ->
                                    dao_delete_hydrus_model(d, r.a1)
                             [] r.op = "delete_weather_file" ->
                                    dao_delete_weather_file(d, r.a1)
                             [] r.op = "delete_shape" -> dao_delete_shape(d, r.a1)
            IN  IF removed.err # "ok" THEN Stop(r, d, removed.err)
                ELSE IF deleted.err # "ok" THEN Stop(r, d, deleted.err)
                ELSE Go([r EXCEPT !.metadata = removed.md], deleted.fs, "save")
      [] r.pc = "save" -> step_save(r, d, r.metadata)

step_add_weather_file(r, d) ==
    CASE r.pc = "read" -> step_read(r, d, "store")
      [] r.pc = "store" ->
            LET added == add_weather_file(r.metadata, r.a1)
            IN  IF added.err # "ok" THEN Stop(r, d, added.err)
                ELSE Go([r EXCEPT !.metadata = added.md],
                        dao_add_weather_file(d, r.a1), "save")
      [] r.pc = "save" -> step_save(r, d, r.metadata)

(* r.a2 is the upload as extract_metadata parsed it *)
step_set_modflow_model(r, d) ==
    CASE r.pc = "read" ->
            IF d.metadata # None /\ read_metadata(d).modflow_metadata # None
            THEN step_read(r, d, "delete_old")
            ELSE step_read(r, d, "store")
      [] r.pc = "delete_old" ->
            LET old == dao_delete_modflow_model(d, r.metadata.modflow_metadata[1].modflow_id)
            IN  IF old.err # "ok" THEN Stop(r, old.fs, old.err) ELSE Go(r, old.fs, "store")
      [] r.pc = "store" ->
            LET stored == dao_add_modflow_model(d, r.a1)
            IN  IF stored.err # "ok" THEN Stop(r, d, stored.err)
                ELSE Go(r, stored.fs, "shape")
      [] r.pc = "shape" ->
            Go(r, dao_save_or_update_shape(d, inactive_shape_id, r.a2.inactive), "save")
      [] r.pc = "save" ->
            LET m1 == add_shape_metadata(
                          set_modflow_metadata(r.metadata, ModflowMetadata(r.a1)),
                          inactive_shape_id, inactive_shape_color)
                m2 == [m1 EXCEPT !.start_date = Some(r.a2.start_date)]
            IN  Go([r EXCEPT !.metadata = m2, !.saved = TRUE],
                   save_or_update_metadata(d, m2), "rch")
      [] r.pc = "rch" -> Stop(r, dao_add_modflow_rch_shapes(d, r.a2.rch_shapes, 1), "ok")

(* save_or_update_shape(shape_id = r.a1, color, new_shape_id = r.a2) *)
step_save_or_update_shape(r, d) ==
    CASE r.pc = "read" ->
            IF d.metadata # None /\ contains_shape(read_metadata(d), r.a1) /\ r.a1 # r.a2
            THEN step_read(r, d, "delete_old")
            ELSE step_read(r, d, "save")
      [] r.pc = "delete_old" ->
            LET deleted == dao_delete_shape(d, r.a1)
            IN  IF deleted.err # "ok" THEN Stop(r, d, deleted.err)
                ELSE Go(r, deleted.fs, "rename")
      [] r.pc = "rename" ->
            LET metadata == r.metadata
                mapped == Has(metadata.shapes_to_hydrus, r.a1)
                current_shape_mapping == Get(metadata.shapes_to_hydrus, r.a1)
                carried == IF ~mapped THEN Result(metadata, "ok")
                           ELSE IF IsFloat(current_shape_mapping)
                           THEN map_shape_to_manual_value(metadata, r.a2,
                                                          current_shape_mapping[2])
                           ELSE map_shape_to_hydrus(metadata, r.a2, current_shape_mapping[2])
                unmapped == IF ~mapped THEN carried
                            ELSE remove_shape_mapping(carried.md, r.a1)
                removed == remove_shape_metadata(unmapped.md, r.a1)
            IN  IF carried.err # "ok" THEN Stop(r, d, carried.err)
                ELSE IF unmapped.err # "ok" THEN Stop(r, d, unmapped.err)
                ELSE IF removed.err # "ok" THEN Stop(r, d, removed.err)
                ELSE step_save(r, d, add_shape_metadata(removed.md, r.a2,
                                                        CHOOSE color \in UserColors : TRUE))
      [] r.pc = "save" ->
            step_save(r, d, add_shape_metadata(r.metadata, r.a2,
                                               CHOOSE color \in UserColors : TRUE))

step(r, d) ==
    CASE r.op = "add_hydrus_model" -> step_add_hydrus_model(r, d)
      [] r.op \in {"delete_hydrus_model", "delete_weather_file", "delete_shape"} ->
            step_delete(r, d)
      [] r.op = "add_weather_file" -> step_add_weather_file(r, d)
      [] r.op = "set_modflow_model" -> step_set_modflow_model(r, d)
      [] r.op = "save_or_update_shape" -> step_save_or_update_shape(r, d)

(* the same call run from the project directory d without interruption *)
svc_result(r, d) ==
    CASE r.op = "add_hydrus_model" -> svc_add_hydrus_model(d, [filename |-> r.a1 \o ZipExt])
      [] r.op = "delete_hydrus_model" -> svc_delete_hydrus_model(d, r.a1)
      [] r.op = "add_weather_file" -> svc_add_weather_file(d, [filename |-> r.a1 \o CsvExt])
      [] r.op = "delete_weather_file" -> svc_delete_weather_file(d, r.a1)
      [] r.op = "set_modflow_model" -> svc_set_modflow_model(d, r.a2)
      [] r.op = "delete_shape" -> svc_delete_shape(d, r.a1)
      [] r.op = "save_or_update_shape" ->
            svc_save_or_update_shape(d, r.a1, CHOOSE color \in UserColors : TRUE, r.a2)

(* the calls that are made step by step *)
StepCalls ==
    {Called("add_hydrus_model", id_ab, NoArg, "ok"),
     Called("delete_hydrus_model", id_ab, NoArg, "ok"),
     Called("delete_shape", inactive_shape_id, NoArg, "ok"),
     Called("save_or_update_shape", inactive_shape_id, shape_t, "ok")}
      \cup {Called("add_weather_file", w, NoArg, "ok") : w \in WeatherIds}
      \cup {Called("delete_weather_file", id_wx1, NoArg, "ok")}
      \cup {Called("set_modflow_model", DropLast(u.filename, 4), u, "ok") : u \in ModflowFiles}

Running(c) == run[c].pc \notin {"idle", "done", "crashed"}

Begin(c, project_id, call) ==
    /\ ops < MaxStarts
    /\ ~Running(c)
    /\ LET before == run[c]
           reissued == /\ before.op = call.op /\ before.project = project_id
                       /\ before.a1 = call.a1 /\ before.a2 = call.a2
                       /\ (before.pc = "crashed" \/ before.err # "ok")
       IN  run' = [run EXCEPT ![c] =
                      [op |-> call.op, project |-> project_id, a1 |-> call.a1,
                       a2 |-> call.a2, pc |-> "read", read |-> None, metadata |-> None,
                       saved |-> FALSE, err |-> "ok",
                       start |-> project_dir(ws, project_id),
                       origin |-> IF ~reissued THEN None
                                  ELSE IF before.origin # None THEN before.origin
                                  ELSE before.start]]
    /\ ops' = ops + 1
    /\ UNCHANGED <<md, fs, last, ws, bucket>>

Step(c) ==
    /\ Running(c)
    /\ LET d == project_dir(ws, run[c].project)
           next == step(run[c], d)
       IN  /\ run' = [run EXCEPT ![c] = next.run]
           /\ ws' = IF next.dir = d THEN ws
                    ELSE put_project_dir(ws, run[c].project, next.dir)
    /\ UNCHANGED <<md, fs, last, ops, bucket>>

(* the process serving the call dies between two store accesses *)
Crash(c) ==
    /\ Running(c)
    /\ run' = [run EXCEPT ![c].pc = "crashed"]
    /\ UNCHANGED <<md, fs, last, ops, ws, bucket>>

(* one caller whose calls can die and be issued again *)
NextCrash ==
    \/ \E call \in StepCalls : Begin(1, ProjectId, call)
    \/ Step(1)
    \/ Crash(1)

SpecCrash == Init /\ [][NextCrash]_vars

(* two callers on the same project, adding and deleting its files *)
NextRace ==
    \/ \E c \in Callers :
          \E call \in {k \in StepCalls : k.op \in {"add_weather_file", "delete_weather_file",
                                                   "add_hydrus_model", "delete_hydrus_model"}} :
              Begin(c, ProjectId, call)
    \/ \E c \in Callers : Step(c)

SpecRace == Init /\ [][NextRace]_vars

(* two callers, each on a project of its own *)
NextProjects ==
    \/ \E c \in Callers, call \in StepCalls :
          Begin(c, IF c = 1 THEN ProjectId ELSE OtherProjectId, call)
    \/ \E c \in Callers : Step(c)

SpecProjects == Init /\ [][NextProjects]_vars

----------------------------------------------------------------------------
(* The masks of the projects: ProjectDao.save_or_update_shape and          *)
(* get_shape on the shapes/ directory, add_modflow_rch_shapes on the       *)
(* rch_shapes/ directory.  last.a1 is <<project_id, shape_id>>, last.a2    *)
(* the mask given or returned.                                             *)

(* an all-zero mask, an all-one mask of one row, a sparse mask of two rows *)
(* and three columns held in column-major order                            *)
MaskInputs ==
    {ndarray("bool", "C", <<<<0, 0>>, <<0, 0>>>>),
     ndarray("int64", "C", <<<<1, 1>>>>),
     ndarray("float64", "F", <<<<1, 0, 0>>, <<0, 1, 1>>>>)}

NextMasks ==
    \/ \E project_id \in ProjectIds, shape_id \in {shape_s, RchShapeId(1)},
          shape_mask \in MaskInputs :
          /\ ops < MaxMaskOps
          /\ ws' = put_project_dir(ws, project_id,
                       dao_save_or_update_shape(project_dir(ws, project_id),
                                                shape_id, shape_mask))
          /\ last' = Called("dao.save_or_update_shape", <<project_id, shape_id>>,
                            shape_mask, "ok")
          /\ ops' = ops + 1
          /\ UNCHANGED <<md, fs, run, bucket>>
    \/ \E project_id \in ProjectIds, shape_id \in {shape_s, RchShapeId(1)} :
          /\ ops < MaxMaskOps
          /\ last' = Called("dao.get_shape", <<project_id, shape_id>>,
                            dao_get_shape(project_dir(ws, project_id), shape_id).mask,
                            dao_get_shape(project_dir(ws, project_id), shape_id).err)
          /\ ops' = ops + 1
          /\ UNCHANGED <<md, fs, ws, run, bucket>>
    \/ \E project_id \in ProjectIds, shape_mask \in MaskInputs :
          /\ ops < MaxMaskOps
          /\ ws' = put_project_dir(ws, project_id,
                       dao_add_modflow_rch_shapes(project_dir(ws, project_id),
                                                  <<shape_mask>>, 1))
          /\ last' = Called("dao.add_modflow_rch_shapes", <<project_id>>,
                            <<shape_mask>>, "ok")
          /\ ops' = ops + 1
          /\ UNCHANGED <<md, fs, run, bucket>>

SpecMasks == Init /\ [][NextMasks]_vars

----------------------------------------------------------------------------
(* The root bucket: objects are put and directories deleted.  last.a1 is   *)
(* the key or the prefix; for delete_directory last.a2 is the set of keys  *)
(* whose deletion the object store refuses during the call.                *)

BucketPrefixes == {<<"p", "/">>, <<"p", "/", "d", "/">>}

NextBucket ==
    \/ \E i \in DOMAIN BucketKeys, object \in {"v1", "v2"} :
          /\ ops < MaxBucketOps
          /\ bucket' = With(bucket, BucketKeys[i], object)
          /\ last' = Called("minio.put_file", BucketKeys[i], object, "ok")
          /\ ops' = ops + 1
          /\ UNCHANGED <<md, fs, ws, run>>
    \/ \E dir_location \in BucketPrefixes, failing \in SUBSET ListToSet(BucketKeys) :
          /\ ops < MaxBucketOps
          /\ bucket' = delete_directory(bucket, dir_location, failing).bucket
          /\ last' = Called("minio.delete_directory", dir_location, failing,
                            delete_directory(bucket, dir_location, failing).err)
          /\ ops' = ops + 1
          /\ UNCHANGED <<md, fs, ws, run>>

SpecBucket == Init /\ [][NextBucket]_vars

----------------------------------------------------------------------------
(* polygon_scaler.scale_polygon.  polygon_arr is the list of the vertices  *)
(* <<x, y>> that cv2.findContours returns (x the column, y the row),       *)
(* original_shape the mask's numpy shape <<rows, columns>>, grid_width and *)
(* grid_height the configured grid.  Column 0 is multiplied by             *)
(* height_scale and column 1 by width_scale; the products are stored into  *)
(* the integer array, which truncates them.  For the coordinates and sizes *)
(* up to MaxDim + 1 the float product x * (g / n) truncates to the integer *)
(* quotient of x * g by n.                                                 *)

scale_polygon(polygon_arr, original_shape, grid_width, grid_height) ==
    [i \in DOMAIN polygon_arr |->
        <<(polygon_arr[i][1] * grid_height) \div original_shape[2],
          (polygon_arr[i][2] * grid_width) \div original_shape[1]>>]

(* a mask of H rows and W columns, a grid, a vertex of the mask and the    *)
(* mask's last cell as the second vertex                                   *)
InitScale ==
    /\ md = NewProjectMetadata(ProjectId)
    /\ fs = SavedNewProject(ProjectId)
    /\ ws = [path \in {get_project_path(p) : p \in ProjectIds} |->
                SavedNewProject(path[2])]
    /\ run = [c \in Callers |-> Idle]
    /\ bucket = EmptyDir
    /\ ops = 0
    /\ \E H \in 1..MaxDim, W \in 1..MaxDim, grid_width \in 1..MaxDim,
          grid_height \in 1..MaxDim :
          \E x \in 0..(W - 1), y \in 0..(H - 1) :
              last = Called("mask", [polygon_arr |-> <<<<x, y>>, <<W - 1, H - 1>>>>,
                                     original_shape |-> <<H, W>>,
                                     grid_width |-> grid_width,
                                     grid_height |-> grid_height],
                            NoArg, "ok")

ScalePolygon ==
    /\ last.op = "mask"
    /\ last' = Called("scale_polygon", last.a1,
                      scale_polygon(last.a1.polygon_arr, last.a1.original_shape,
                                    last.a1.grid_width, last.a1.grid_height),
                      "ok")
    /\ ops' = ops + 1
    /\ UNCHANGED <<md, fs, ws, run, bucket>>

SpecScale == InitScale /\ [][ScalePolygon]_vars

----------------------------------------------------------------------------
(* Properties *)

(* the persisted metadata as the next read_metadata returns it *)
meta == read_metadata(fs)

DomainErrors ==
    {"DuplicateHydrusModel", "DuplicateWeatherFile", "UnknownHydrusModel",
     "UnknownWeatherFile", "UnknownShape"}

ReferentialIntegrity(m) ==
    /\ Keys(m.shapes_to_hydrus) \subseteq Keys(m.shapes)
    /\ \A v \in Values(m.shapes_to_hydrus) : IsStr(v) => v[2] \in m.hydrus_models
    /\ Keys(m.hydrus_to_weather) \subseteq m.hydrus_models
    /\ Values(m.hydrus_to_weather) \subseteq m.weather_files

(* C1: after any sequence of ProjectMetadata calls, successful or failed,  *)
(* every key of shapes_to_hydrus is a shape, every string value of it is a *)
(* soil model, every key of hydrus_to_weather is a soil model and every    *)
(* value of it is a weather file.                                          *)
C1_ReferentialIntegrity == ReferentialIntegrity(md)

(* C2: after delete_hydrus_model(M) succeeds, no entry of the persisted    *)
(* shapes_to_hydrus has value M and hydrus_to_weather has no key M.        *)
C2_DeletedModelNotReferenced ==
    (last.op = "delete_hydrus_model" /\ last.err = "ok") =>
        /\ StrVal(last.a1) \notin Values(meta.shapes_to_hydrus)
        /\ ~Has(meta.hydrus_to_weather, last.a1)

(* C3: delete_weather_file(W) of a weather file W of the project always    *)
(* succeeds, and afterwards W is not in weather_files, no entry of         *)
(* hydrus_to_weather has value W and the other entries are kept.           *)
C3_DeleteWeatherFilePurges ==
    [][(last'.op = "delete_weather_file" /\ last'.a1 \in meta.weather_files) =>
         /\ last'.err = "ok"
         /\ last'.a1 \notin meta'.weather_files
         /\ meta'.hydrus_to_weather =
                SelectSeq(meta.hydrus_to_weather, LAMBDA e : e[2] # last'.a1)]_vars

(* C4: map_shape_to_hydrus(S, M) succeeds iff S is a shape and M is a soil *)
(* model; on success shapes_to_hydrus[S] = M and no other entry changes;   *)
(* otherwise it fails with UnknownShape or UnknownHydrusModel and          *)
(* shapes_to_hydrus is unchanged, in the object and as persisted.          *)
C4_MapShapeToHydrus ==
    [][last'.op = "map_shape_to_hydrus" =>
         LET S == last'.a1
             M == last'.a2
             before == meta.shapes_to_hydrus
             after == meta'.shapes_to_hydrus
             inMemory == map_shape_to_hydrus(meta, S, M).md.shapes_to_hydrus
         IN  IF Has(meta.shapes, S) /\ M \in meta.hydrus_models
             THEN /\ last'.err = "ok"
                  /\ Has(after, S) /\ Get(after, S) = StrVal(M)
                  /\ Del(after, S) = Del(before, S)
                  /\ inMemory = after
             ELSE /\ last'.err \in {"UnknownShape", "UnknownHydrusModel"}
                  /\ last'.err = "UnknownShape" => ~Has(meta.shapes, S)
                  /\ last'.err = "UnknownHydrusModel" => M \notin meta.hydrus_models
                  /\ after = before
                  /\ inMemory = before
                  /\ fs' = fs]_vars

C4_Witness ==
    /\ last.op = "map_shape_to_hydrus" /\ last.err = "ok"
    /\ Has(meta.shapes_to_hydrus, last.a1)
    /\ Get(meta.shapes_to_hydrus, last.a1) = StrVal(last.a2)
    /\ Len(meta.shapes_to_hydrus) >= 2

(* C5: after add_hydrus_model(id) succeeds the id is in the persisted      *)
(* hydrus_models, and an add_hydrus_model(id) of an id that is already     *)
(* there fails with DuplicateHydrusModel and changes nothing.              *)
C5_DuplicateHydrusModel ==
    [][last'.op = "add_hydrus_model" =>
         /\ last'.err = "ok" => last'.a1 \in meta'.hydrus_models
         /\ last'.a1 \in meta.hydrus_models =>
                (last'.err = "DuplicateHydrusModel" /\ fs' = fs)]_vars

(* C6: a service call that ends with a Duplicate or Unknown error leaves   *)
(* the artifact store and the persisted metadata as they were.             *)
C6_DomainErrorBeforeSideEffect ==
    [][last'.err \in DomainErrors => fs' = fs]_vars

(* C7: delete_hydrus_model, delete_weather_file and delete_shape of an id  *)
(* the metadata does not contain fail with UnknownHydrusModel,             *)
(* UnknownWeatherFile and UnknownShape and change nothing.                 *)
C7_DeleteUnknownRejected ==
    [][/\ (last'.op = "delete_hydrus_model" /\ last'.a1 \notin meta.hydrus_models) =>
              (last'.err = "UnknownHydrusModel" /\ fs' = fs)
       /\ (last'.op = "delete_weather_file" /\ last'.a1 \notin meta.weather_files) =>
              (last'.err = "UnknownWeatherFile" /\ fs' = fs)
       /\ (last'.op = "delete_shape" /\ ~Has(meta.shapes, last'.a1)) =>
              (last'.err = "UnknownShape" /\ fs' = fs)]_vars

C7_Witness ==
    /\ last.op = "delete_hydrus_model" /\ last.err = "UnknownHydrusModel"
    /\ last.a1 \notin meta.hydrus_models
    /\ meta.hydrus_models # {}
    /\ fs.hydrus = meta.hydrus_models

(* C8: save_or_update_shape(old, color, new) with old a shape and new      *)
(* different from old completes; afterwards new is a shape, old is neither *)
(* a shape nor a key of shapes_to_hydrus, a mapping of old is now the      *)
(* mapping of new, the old mask is gone and a mask exists under new.       *)
C8_RenameShape ==
    [][(last'.op = "save_or_update_shape" /\ Has(meta.shapes, last'.a1)
            /\ last'.a1 # last'.a2) =>
         LET old == last'.a1
             new == last'.a2
         IN  /\ last'.err = "ok"
             /\ Has(meta'.shapes, new)
             /\ ~Has(meta'.shapes, old)
             /\ ~Has(meta'.shapes_to_hydrus, old)
             /\ Has(meta.shapes_to_hydrus, old) =>
                    /\ Has(meta'.shapes_to_hydrus, new)
                    /\ Get(meta'.shapes_to_hydrus, new) = Get(meta.shapes_to_hydrus, old)
             /\ get_shape_path(old) \notin DOMAIN fs'.shapes
             /\ get_shape_path(new) \in DOMAIN fs'.shapes]_vars

(* C9: delete_modflow_model of a project with a groundwater model          *)
(* completes; afterwards modflow_metadata is None, shapes and              *)
(* shapes_to_hydrus are empty, rch_shapes holds no mask and the model's    *)
(* directory is gone.                                                      *)
C9_DeleteModflowModel ==
    [][(last'.op = "delete_modflow_model" /\ meta.modflow_metadata # None) =>
         /\ last'.err = "ok"
         /\ meta'.modflow_metadata = None
         /\ meta'.shapes = <<>>
         /\ meta'.shapes_to_hydrus = <<>>
         /\ fs'.rch_shapes = EmptyDir
         /\ meta.modflow_metadata[1].modflow_id \notin fs'.modflow]_vars

(* C10: when set_modflow_model succeeds on a project that has a            *)
(* groundwater model, the previous model's directory is deleted, the       *)
(* rch_shapes directory holds exactly the recharge masks of the new model  *)
(* and the metadata's groundwater reference is the new model.              *)
C10_ReplaceModflowModel ==
    [][(last'.op = "set_modflow_model" /\ last'.err = "ok"
            /\ meta.modflow_metadata # None) =>
         LET old == meta.modflow_metadata[1].modflow_id
             new == last'.a1
             upload == CHOOSE u \in ModflowFiles : DropLast(u.filename, 4) = new
             n == Len(upload.rch_shapes)
         IN  /\ old # new => old \notin fs'.modflow
             /\ new \in fs'.modflow
             /\ DOMAIN fs'.rch_shapes = {RchShapeId(i) \o NpyExt : i \in 1..n}
             /\ \A i \in 1..n :
                    np_load(fs'.rch_shapes[RchShapeId(i) \o NpyExt]) = upload.rch_shapes[i]
             /\ meta'.modflow_metadata = Some(ModflowMetadata(new))]_vars

(* the model m1 replaced m2: a recharge mask of m2 was copied to shapes/   *)
(* while m2 was the groundwater model, and rch_shapes/ now holds m1's mask *)
C10_Witness ==
    /\ last.op = "set_modflow_model" /\ last.err = "ok"
    /\ last.a1 = <<"m", "1">>
    /\ \E name \in DOMAIN fs.shapes, u \in ModflowFiles :
          /\ DropLast(u.filename, 4) = <<"m", "2">>
          /\ np_load(fs.shapes[name]) = u.rch_shapes[2]
    /\ DOMAIN fs.rch_shapes = {RchShapeId(1) \o NpyExt}
    /\ meta.modflow_metadata = Some(ModflowMetadata(<<"m", "1">>))

(* C11: after set_modflow_model succeeds the persisted shapes hold         *)
(* "inactive_modflow_cells" with colour "#999999" and its mask is a file   *)
(* of shapes/; the n recharge rasters of the upload are the files          *)
(* rch_shape_1 .. rch_shape_n of rch_shapes/, the i-th raster under        *)
(* rch_shape_i, and the call adds none of them to shapes/ or to the        *)
(* metadata's shapes.                                                      *)
C11_SetModflowModelShapes ==
    [][(last'.op = "set_modflow_model" /\ last'.err = "ok") =>
         LET upload == CHOOSE u \in ModflowFiles : DropLast(u.filename, 4) = last'.a1
             n == Len(upload.rch_shapes)
             inactive == <<"inactive_modflow_cells", ".npy">>
             rch(i) == <<"rch_shape_", ToStr(i), ".npy">>
         IN  /\ Has(meta'.shapes, <<"inactive_modflow_cells">>)
             /\ Get(meta'.shapes, <<"inactive_modflow_cells">>) = "#999999"
             /\ inactive \in DOMAIN fs'.shapes
             /\ np_load(fs'.shapes[inactive]) = upload.inactive
             /\ \A i \in 1..n :
                    /\ rch(i) \in DOMAIN fs'.rch_shapes
                    /\ np_load(fs'.rch_shapes[rch(i)]) = upload.rch_shapes[i]
             /\ DOMAIN fs'.shapes = (DOMAIN fs.shapes) \cup {inactive}
             /\ \A x \in (DOMAIN fs.shapes) \ {inactive} : fs'.shapes[x] = fs.shapes[x]
             /\ Keys(meta'.shapes) = Keys(meta.shapes) \cup {<<"inactive_modflow_cells">>}]_vars

(* the upload m2 with two recharge rasters was stored *)
C11_Witness ==
    /\ last.op = "set_modflow_model" /\ last.err = "ok"
    /\ last.a1 = <<"m", "2">>
    /\ Get(meta.shapes, inactive_shape_id) = inactive_shape_color
    /\ dao_get_shape(fs, inactive_shape_id).mask.rows = <<<<0, 0>>, <<0, 1>>>>
    /\ np_load(fs.rch_shapes[get_rch_shape_filepath(RchShapeId(1))]).rows =
           <<<<1, 0>>, <<1, 0>>>>
    /\ np_load(fs.rch_shapes[get_rch_shape_filepath(RchShapeId(2))]).rows =
           <<<<0, 1>>, <<0, 1>>>>
    /\ RchShapeId(1) \notin Keys(meta.shapes)

(* C16: save_or_update_metadata overwrites the metadata record of the      *)
(* project; afterwards modflow/, hydrus/, weather/, shapes/ and            *)
(* rch_shapes/ exist, the ones that were absent are empty, everything that *)
(* was stored in the project and every other project is unchanged, and     *)
(* writing the same metadata once more changes nothing.                    *)
C16_SaveOrUpdateMetadata ==
    [][last'.op = "save_or_update_metadata" =>
         LET metadata == last'.a2
             path == <<"workspace", metadata.project_id>>
             before == IF path \in DOMAIN ws THEN ws[path]
                       ELSE [modflow |-> {}, hydrus |-> {}, weather |-> {},
                             shapes |-> <<>>, rch_shapes |-> <<>>, dirs |-> {},
                             archive |-> <<>>]
         IN  /\ last'.err = "ok"
             /\ DOMAIN ws' = (DOMAIN ws) \cup {path}
             /\ \A other \in (DOMAIN ws) \ {path} : ws'[other] = ws[other]
             /\ ws_read_metadata(ws', metadata.project_id) = Result(metadata, "ok")
             /\ ws'[path].dirs =
                    before.dirs \cup {"modflow", "hydrus", "weather", "shapes", "rch_shapes"}
             /\ ws'[path].modflow = before.modflow
             /\ ws'[path].hydrus = before.hydrus
             /\ ws'[path].weather = before.weather
             /\ ws'[path].shapes = before.shapes
             /\ ws'[path].rch_shapes = before.rch_shapes
             /\ ws'[path].archive = before.archive
             /\ ws_save_or_update_metadata(ws', metadata) = ws']_vars

(* metadata was written into a project directory that held a mask and a    *)
(* weather file the metadata does not list                                 *)
C16_Witness ==
    /\ last.op = "save_or_update_metadata"
    /\ LET f == ws[get_project_path(last.a1)]
       IN  /\ DOMAIN f.shapes # {}
           /\ f.weather = {id_b}
           /\ read_metadata(f).weather_files = {}
           /\ SubDirs \subseteq f.dirs

(* C17: delete never raises; on a project directory that does not exist it *)
(* changes nothing; otherwise the whole directory is gone, the other       *)
(* projects are as they were, read_all_names no longer lists the id and    *)
(* read_metadata of it fails.                                              *)
C17_DeleteProject ==
    [][last'.op = "delete" =>
         LET path == <<"workspace", last'.a1>>
         IN  /\ last'.err = "ok"
             /\ path \notin DOMAIN ws => ws' = ws
             /\ DOMAIN ws' = (DOMAIN ws) \ {path}
             /\ \A other \in DOMAIN ws' : ws'[other] = ws[other]
             /\ last'.a1 \notin read_all_names(ws')
             /\ ws_read_metadata(ws', last'.a1).err = "FileNotFoundError"]_vars

(* a project was deleted while the other one holds artifacts *)
C17_Witness ==
    /\ last.op = "delete" /\ last.err = "ok"
    /\ read_all_names(ws) = ProjectIds \ {last.a1}
    /\ \E path \in DOMAIN ws : ws[path].weather # {}

C12_ArtifactsBeforeMetadata ==
    [][\A c \in Callers :
         (/\ run[c].op \in {"add_hydrus_model", "add_weather_file", "set_modflow_model"}
          /\ run[c].saved
          /\ run'[c] # run[c]) =>
            LET path == <<"workspace", run[c].project>>
            IN  [ws'[path] EXCEPT !.metadata = <<>>] = [ws[path] EXCEPT !.metadata = <<>>]]_vars

(* C13: a call that re-issues a call which crashed or failed completes,    *)
(* and leaves the project directory as the first call would have left it   *)
(* had it run without interruption.                                        *)
C13_ReissueRecovers ==
    \A c \in Callers :
        (/\ run[c].pc = "done"
         /\ run[c].origin # None
         /\ svc_result(run[c], run[c].origin).err = "ok") =>
            /\ run[c].err = "ok"
            /\ ws[<<"workspace", run[c].project>>] = svc_result(run[c], run[c].origin).fs

(* C14: the metadata write of an add_weather_file call succeeds whatever   *)
(* was written since the call read the metadata, and the persisted         *)
(* metadata is then what the call read plus its own id, so that the change *)
(* of a call that wrote in between is lost; the write leaves weather/ as   *)
(* it is.                                                                  *)
C14_LastWriterWins ==
    [][\A c \in Callers :
         (run[c].op = "add_weather_file" /\ run[c].pc = "save" /\ run'[c].pc = "done") =>
            LET after == ws'[<<"workspace", run[c].project>>]
            IN  /\ run'[c].err = "ok"
                /\ ListToSet(after.metadata.weather_files) =
                       run[c].read.weather_files \cup {run[c].a1}
                /\ after.weather = ws[<<"workspace", run[c].project>>].weather]_vars

(* both add_weather_file calls returned, both files are stored and the     *)
(* persisted weather_files holds one id                                    *)
C14_Witness ==
    /\ \A c \in Callers :
          run[c].op = "add_weather_file" /\ run[c].pc = "done" /\ run[c].err = "ok"
    /\ run[1].a1 # run[2].a1
    /\ LET f == ws[get_project_path(ProjectId)]
       IN  /\ {run[1].a1, run[2].a1} \subseteq f.weather
           /\ Cardinality(read_metadata(f).weather_files) = 1

(* C15: a step of a call on a project leaves the directory of every other  *)
(* project as it was, and a call that ends while calls on other projects   *)
(* are in progress ends as, and leaves its project as, the same call run   *)
(* alone without interruption.                                             *)
C15_ProjectsIndependent ==
    [][\A c \in Callers :
         run'[c] # run[c] =>
            LET p == run'[c].project
                alone == svc_result(run'[c], run'[c].start)
            IN  /\ \A q \in {"demo", "other"} \ {p} :
                       /\ <<"workspace", q>> \in DOMAIN ws' <=> <<"workspace", q>> \in DOMAIN ws
                       /\ <<"workspace", q>> \in DOMAIN ws =>
                              ws'[<<"workspace", q>>] = ws[<<"workspace", q>>]
                /\ (run'[c].pc = "done" /\ run[c].pc # "done") =>
                       /\ run'[c].err = alone.err
                       /\ ws'[<<"workspace", p>>] = alone.fs]_vars

(* a call on one project ended while the call on the other project had     *)
(* stored its artifact and not yet written its metadata                    *)
C15_Witness ==
    /\ run[1].pc = "done" /\ run[1].err = "ok" /\ run[1].op = "add_hydrus_model"
    /\ run[2].pc = "save" /\ run[2].op = "add_weather_file"
    /\ run[1].start.weather = {} /\ run[2].start.hydrus = {}
    /\ ws[get_project_path(ProjectId)].hydrus = {id_ab}
    /\ ws[get_project_path(ProjectId)].weather = {}
    /\ ws[get_project_path(OtherProjectId)].weather = {run[2].a1}
    /\ ws[get_project_path(OtherProjectId)].hydrus = {}

(* C19: remove_shape_mapping of an id that is not a shape fails with       *)
(* UnknownShape and remove_hydrus_weather_mapping of an id that is not a   *)
(* soil model fails with UnknownHydrusModel, both changing nothing; of an  *)
(* existing entity they succeed, delete the entry of that entity if there  *)
(* is one and nothing else, and a second call changes nothing more.        *)
C19_RemoveMappingPolicy ==
    [][/\ last'.op = "md.remove_shape_mapping" =>
            IF ~Has(md.shapes, last'.a1)
            THEN last'.err = "UnknownShape" /\ md' = md
            ELSE /\ last'.err = "ok"
                 /\ md'.shapes_to_hydrus =
                        SelectSeq(md.shapes_to_hydrus, LAMBDA e : e[1] # last'.a1)
                 /\ [md' EXCEPT !.shapes_to_hydrus = md.shapes_to_hydrus] = md
                 /\ ~Has(md.shapes_to_hydrus, last'.a1) => md' = md
                 /\ remove_shape_mapping(md', last'.a1) = Result(md', "ok")
       /\ last'.op = "md.remove_hydrus_weather_mapping" =>
            IF last'.a1 \notin md.hydrus_models
            THEN last'.err = "UnknownHydrusModel" /\ md' = md
            ELSE /\ last'.err = "ok"
                 /\ md'.hydrus_to_weather =
                        SelectSeq(md.hydrus_to_weather, LAMBDA e : e[1] # last'.a1)
                 /\ [md' EXCEPT !.hydrus_to_weather = md.hydrus_to_weather] = md
                 /\ ~Has(md.hydrus_to_weather, last'.a1) => md' = md
                 /\ remove_hydrus_weather_mapping(md', last'.a1) = Result(md', "ok")]_vars

(* the mapping of one soil model was removed and the mapping of another    *)
(* one is still there                                                      *)
C19_Witness ==
    /\ last.op = "md.remove_hydrus_weather_mapping" /\ last.err = "ok"
    /\ last.a1 \in md.hydrus_models
    /\ ~Has(md.hydrus_to_weather, last.a1)
    /\ Len(md.hydrus_to_weather) = 1
    /\ md.weather_files # {}

(* C20: scale_polygon maps every vertex <<x, y>> of a polygon traced on a  *)
(* mask of H rows and W columns to <<trunc(x * grid_width / W),            *)
(* trunc(y * grid_height / H)>>.                                           *)
C20_ScalePolygon ==
    last.op = "scale_polygon" =>
        LET H == last.a1.original_shape[1]
            W == last.a1.original_shape[2]
        IN  \A i \in DOMAIN last.a1.polygon_arr :
                last.a2[i] = <<(last.a1.polygon_arr[i][1] * last.a1.grid_width) \div W,
                               (last.a1.polygon_arr[i][2] * last.a1.grid_height) \div H>>

(* C21: save_or_update_shape(project, id, mask) succeeds and get_shape of   *)
(* the same project and id then returns an array equal to mask in dtype,   *)
(* memory order and every cell, whatever was stored under the id before;   *)
(* the masks under the other ids of shapes/, the files of rch_shapes/ and  *)
(* the other projects are as they were; a get_shape changes nothing.       *)
C21_MaskRoundTrip ==
    [][LET project_id == last'.a1[1]
           shape_id == last'.a1[2]
           path == <<"workspace", project_id>>
           name == shape_id \o <<".npy">>
       IN  /\ last'.op = "dao.save_or_update_shape" =>
                  /\ last'.err = "ok"
                  /\ dao_get_shape(ws'[path], shape_id) = [mask |-> last'.a2, err |-> "ok"]
                  /\ DOMAIN ws' = DOMAIN ws
                  /\ \A other \in (DOMAIN ws) \ {path} : ws'[other] = ws[other]
                  /\ DOMAIN ws'[path].shapes = (DOMAIN ws[path].shapes) \cup {name}
                  /\ \A x \in (DOMAIN ws[path].shapes) \ {name} :
                         ws'[path].shapes[x] = ws[path].shapes[x]
                  /\ ws'[path].rch_shapes = ws[path].rch_shapes
           /\ last'.op = "dao.get_shape" =>
                  /\ ws' = ws
                  /\ (last.op = "dao.save_or_update_shape" /\ last.a1 = last'.a1) =>
                         (last'.err = "ok" /\ last'.a2 = last.a2)]_vars

(* get_shape returned the column-major mask while shapes/ holds another    *)
(* mask under the id of a recharge shape and rch_shapes/ holds a file of   *)
(* that id                                                                 *)
C21_Witness ==
    /\ last.op = "dao.get_shape" /\ last.err = "ok"
    /\ last.a2 = ndarray("float64", "F", <<<<1, 0, 0>>, <<0, 1, 1>>>>)
    /\ LET f == ws[get_project_path(last.a1[1])]
       IN  /\ DOMAIN f.shapes = {get_shape_path(shape_s), get_shape_path(RchShapeId(1))}
           /\ f.shapes[get_shape_path(RchShapeId(1))] # f.shapes[get_shape_path(last.a1[2])]
           /\ DOMAIN f.rch_shapes = {get_rch_shape_filepath(RchShapeId(1))}

(* C22: a ProjectMetadata method that raises leaves the object as it was:  *)
(* hydrus_models, weather_files, shapes, shapes_to_hydrus and              *)
(* hydrus_to_weather are what they were before the call.                   *)
C22_NoPartialChange ==
    [][(last'.op \in {"md.add_hydrus_model", "md.remove_hydrus_model",
                      "md.add_weather_file", "md.remove_weather_file",
                      "md.remove_shape_metadata", "md.map_shape_to_hydrus",
                      "md.map_shape_to_manual_value", "md.map_hydrus_to_weather",
                      "md.remove_shape_mapping", "md.remove_hydrus_weather_mapping"}
          /\ last'.err # "ok") =>
         /\ md'.hydrus_models = md.hydrus_models
         /\ md'.weather_files = md.weather_files
         /\ md'.shapes = md.shapes
         /\ md'.shapes_to_hydrus = md.shapes_to_hydrus
         /\ md'.hydrus_to_weather = md.hydrus_to_weather]_vars

(* the artifact store holds what the persisted metadata names *)
StoreAgrees(f) ==
    LET m == read_metadata(f)
    IN  /\ \A shape_id \in Keys(m.shapes) : (shape_id \o <<".npy">>) \in DOMAIN f.shapes
        /\ m.hydrus_models \subseteq f.hydrus
        /\ m.weather_files \subseteq f.weather
        /\ m.modflow_metadata # None => m.modflow_metadata[1].modflow_id \in f.modflow

(* C23: a service operation that completes on a project whose store holds  *)
(* what its metadata names leaves such a project: every persisted shape    *)
(* has a mask in shapes/, every soil model a directory, every weather file *)
(* a file, the groundwater model its directory, and get_all_shapes finds   *)
(* every mask.                                                             *)
C23_MetadataAndStoreAgree ==
    [][(StoreAgrees(fs) /\ last'.err = "ok") =>
         (StoreAgrees(fs') /\ svc_get_all_shapes(fs').err = "ok")]_vars

(* C24: delete_directory(prefix) that returns leaves no key that starts    *)
(* with the prefix; one that raises has deleted the keys listed before the *)
(* first key whose deletion failed and none from that key on; either way   *)
(* every key that remains was there before with the same object, and every *)
(* key that does not start with the prefix remains.                        *)
C24_DeleteDirectory ==
    [][last'.op = "minio.delete_directory" =>
         LET prefix == last'.a1
             under(key) == /\ Len(key) >= Len(prefix)
                           /\ \A i \in 1..Len(prefix) : key[i] = prefix[i]
             order == <<<<"p", "/", "a">>, <<"p", "/", "d", "/", "c">>, <<"q", "/", "a">>>>
             pos(key) == CHOOSE i \in 1..Len(order) : order[i] = key
             refused == {key \in DOMAIN bucket : under(key) /\ key \in last'.a2}
         IN  /\ last'.err = "ok" <=> refused = {}
             /\ last'.err = "ok" => \A key \in DOMAIN bucket' : ~under(key)
             /\ last'.err # "ok" =>
                    \A key \in DOMAIN bucket :
                        under(key) =>
                            (key \in DOMAIN bucket' <=>
                                \E r \in refused : pos(r) <= pos(key))
             /\ \A key \in DOMAIN bucket' : key \in DOMAIN bucket /\ bucket'[key] = bucket[key]
             /\ \A key \in DOMAIN bucket : ~under(key) => key \in DOMAIN bucket']_vars

(* the deletion of the directory p/ ended with the error of the key in its *)
(* sub-directory: that key is still there, and so is the key of q/         *)
C24_Witness ==
    /\ last.op = "minio.delete_directory" /\ last.err = "S3Error"
    /\ last.a1 = <<"p", "/">>
    /\ last.a2 = {<<"p", "/", "d", "/", "c">>}
    /\ DOMAIN bucket = {<<"p", "/", "d", "/", "c">>, <<"q", "/", "a">>}
    /\ list_bucket_content(bucket, last.a1) = <<<<"p", "/", "d", "/", "c">>>>

(* C25: after any sequence of service operations, completed or ended by an *)
(* error, every key of the persisted shapes_to_hydrus is a key of the      *)
(* persisted shapes.                                                       *)
C25_MappedShapesExist ==
    \A i \in DOMAIN fs.metadata.shapes_to_hydrus :
        \E j \in DOMAIN fs.metadata.shapes :
            fs.metadata.shapes[j][1] = fs.metadata.shapes_to_hydrus[i][1]

(* a mapped shape was renamed to a shape that existed: the mapping is now  *)
(* the mapping of the new id and the old id is gone from both dicts        *)
C25_Witness ==
    /\ last.op = "save_or_update_shape" /\ last.err = "ok"
    /\ last.a1 # last.a2
    /\ Has(fs.metadata.shapes_to_hydrus, last.a2)
    /\ ~Has(fs.metadata.shapes_to_hydrus, last.a1)
    /\ ~Has(fs.metadata.shapes, last.a1)
    /\ Len(fs.metadata.shapes) >= 2

====
